---- MODULE Spec2Model ----
(***************************************************************************)
(* The to-do server (src/unnamed/part_000): five GraphQL resolvers over    *)
(* one module-level lru-cache instance, LRU({max: 25, maxAge: 5 min}).     *)
(*                                                                         *)
(* The cache is the list lru-cache keeps, most recently used entry first;  *)
(* each entry carries its key, its value and the time it was written.      *)
(* The two mutations suspend in sleep(5000) before they run the rest of    *)
(* their body, so each is two steps: the call (which arms the timer) and   *)
(* the resumption (which runs everything after the await).                 *)
(*                                                                         *)
(* Time is counted in ticks.  The capacity, the maximum age and the sleep  *)
(* are the program's constants scaled down so that a full store, an entry  *)
(* past its age and two overlapping mutations all occur within the bounds. *)
(***************************************************************************)
EXTENDS Integers, Sequences, FiniteSets, TLC

\* ---------------------------------------------------------------- bounds
\* The last clock value explored.
MaxTime == 4
\* The number of identifiers generate() hands out.
MaxGen == 2
\* The number of mutations suspended in sleep() at one time, where calls
\* overlap.
MaxOverlap == 2

\* ------------------------------------------------------ program constants
\* LRU({ max: 25, ... }), scaled.
max == 2
\* LRU({ ..., maxAge: 1000 * 60 * 5 }), scaled to ticks.
maxAge == 2
\* await sleep(5000), scaled to ticks.
SleepTime == 1

\* ------------------------------------------------------------ value sets
\* Strings are sequences of characters; a character is a number here.
\* generate() returns the non-empty string <<n>> for the n-th call.
EmptyString == << >>
GeneratedIds == {<<n>> : n \in 1..MaxGen}
\* An id a client sends is any string: one the server generated, will
\* generate, or never generates (the empty string stands for those).
\* todo is asked for every such id; updateTodo is called with two of them.
QueryIds == GeneratedIds \cup {EmptyString}
UpdateIds == {EmptyString, <<1>>}
Types == {"foo", "bar", "fail"}
Descriptions == {"d1", "d2"}
\* The type a client asks todosByType for is any string as well.
QueryTypes == Types \cup {"Foo"}

\* The value a resolver returns when the cache has nothing: undefined.
Undefined == [undefined |-> TRUE]
\* The error both mutations throw.
FailError == [error |-> "failed on type === fail"]

VARIABLES
    cache,       \* the lru-cache list, most recently used first
    clock,       \* Date.now()
    generated,   \* how many ids generate() has returned
    inflight,    \* the mutations suspended in sleep(), in timer order
    resp,        \* the last resumed mutation: what it returned or threw,
                 \* and history: when it resumed and what the store had
                 \* under its id ("none", a "live" or a "stale" entry)
    touchOrder,  \* history: the stored keys, least recently touched first
    writtenAt    \* history: for each stored key, the time of its last write

vars == <<cache, clock, generated, inflight, resp, touchOrder, writtenAt>>

\* ------------------------------------------------------- the lru-cache
\* const cache = LRU({ max, maxAge }): an entry is {key, value, now}; every
\* entry has length 1 and the cache's maxAge.
Entry(key, value, now) == [key |-> key, value |-> value, now |-> now]

Keys(list) == {list[i].key : i \in 1..Len(list)}

\* The position of key in the list (the Map lookup), 0 when it has none.
IndexOf(list, key) ==
    IF \E i \in 1..Len(list) : list[i].key = key
    THEN CHOOSE i \in 1..Len(list) :
             /\ list[i].key = key
             /\ \A j \in 1..(i - 1) : list[j].key # key
    ELSE 0

\* isStale: diff = Date.now() - hit.now; stale = diff > maxAge.
isStale(hit, t) == (t - hit.now) > maxAge

\* del: unlink the node at position i.
del(list, i) == SubSeq(list, 1, i - 1) \o SubSeq(list, i + 1, Len(list))

\* unshiftNode: move the node at position i to the head.
unshiftNode(list, i) == <<list[i]>> \o del(list, i)

\* trim that lets the list grow one past max.
RECURSIVE trim_OnePastMax(_)
trim_OnePastMax(list) ==
    IF Len(list) > max + 1
    THEN trim_OnePastMax(SubSeq(list, 1, Len(list) - 1)) ELSE list

\* trim: drop nodes from the tail while the length exceeds max.
RECURSIVE trim(_)
trim(list) ==
    IF Len(list) > max THEN trim(SubSeq(list, 1, Len(list) - 1)) ELSE list

\* cache.get that leaves a live hit where it is in the list.
LRUget_NoPromote(list, key, t) ==
    LET i == IndexOf(list, key) IN
    IF i = 0 THEN [list |-> list, value |-> Undefined]
    ELSE IF isStale(list[i], t)
         THEN [list |-> del(list, i), value |-> Undefined]
         ELSE [list |-> list, value |-> list[i].value]

\* cache.get that restarts the age of a live hit.
LRUget_RefreshAge(list, key, t) ==
    LET i == IndexOf(list, key) IN
    IF i = 0 THEN [list |-> list, value |-> Undefined]
    ELSE IF isStale(list[i], t)
         THEN [list |-> del(list, i), value |-> Undefined]
         ELSE [list |-> <<Entry(key, list[i].value, t)>> \o del(list, i),
               value |-> list[i].value]

\* cache.get(key): a stale hit is deleted and undefined is returned; a live
\* hit moves to the head and its value is returned; its time is not touched.
LRUget(list, key, t) ==
    LET i == IndexOf(list, key) IN
    IF i = 0 THEN [list |-> list, value |-> Undefined]
    ELSE IF isStale(list[i], t)
         THEN [list |-> del(list, i), value |-> Undefined]
         ELSE [list |-> unshiftNode(list, i), value |-> list[i].value]

\* cache.set that makes room before it looks the key up.
LRUset_EvictFirst(list, key, value, t) ==
    LET room == IF Len(list) >= max THEN SubSeq(list, 1, Len(list) - 1) ELSE list
        i == IndexOf(room, key) IN
    IF i # 0
    THEN LRUget([room EXCEPT ![i] = Entry(key, value, t)], key, t).list
    ELSE <<Entry(key, value, t)>> \o room

\* cache.set that never looks the key up.
LRUset_NoLookup(list, key, value, t) == trim(<<Entry(key, value, t)>> \o list)

\* cache.set(key, value): an existing key has its value and time replaced
\* and is then used (this.get(key)); a new key is unshifted to the head;
\* then trim.
LRUset(list, key, value, t) ==
    LET i == IndexOf(list, key) IN
    IF i # 0
    THEN trim(LRUget([list EXCEPT ![i] = Entry(key, value, t)], key, t).list)
    ELSE trim(<<Entry(key, value, t)>> \o list)

\* cache.forEach(fn): walk from the head; a stale node is deleted and
\* skipped, fn is called with the value of every other node.  The result is
\* the list that remains and the values fn was called with, in order.
RECURSIVE forEachFrom(_, _, _)
forEachFrom(list, i, t) ==
    IF i > Len(list) THEN [list |-> << >>, called |-> << >>]
    ELSE LET rest == forEachFrom(list, i + 1, t) IN
         IF isStale(list[i], t)
         THEN rest
         ELSE [list |-> <<list[i]>> \o rest.list,
               called |-> <<list[i].value>> \o rest.called]

forEach(list, t) == forEachFrom(list, 1, t)

\* generate returning the empty string.
generate_Empty(n) == EmptyString

\* generate(): the n-th identifier, a non-empty string.
generate(n) == <<n>>

\* ------------------------------------------------------------ history
\* A touch of key moves it to the recent end of the order.
Touch(order, key) == SelectSeq(order, LAMBDA k : k # key) \o <<key>>

\* The order and the write times, kept for the keys that are still stored.
Stored(order, list) == SelectSeq(order, LAMBDA k : k \in Keys(list))
StoredTimes(times, list) == [k \in Keys(list) \cap DOMAIN times |-> times[k]]

\* What the store has under id at time t.
Had(list, id, t) ==
    IF \A i \in 1..Len(list) : list[i].key # id THEN "none"
    ELSE IF \E i \in 1..Len(list) : list[i].key = id /\ t - list[i].now > maxAge
         THEN "stale" ELSE "live"

\* ---------------------------------------------------------------- Init
Init ==
    /\ cache = << >>
    /\ clock = 0
    /\ generated = 0
    /\ inflight = << >>
    /\ resp = [op |-> "none"]
    /\ touchOrder = << >>
    /\ writtenAt = << >>

\* Time passes.
Tick ==
    /\ clock < MaxTime
    /\ clock' = clock + 1
    /\ UNCHANGED <<cache, generated, inflight, resp, touchOrder, writtenAt>>

\* What Query.todos returns: every entry forEach yields, pushed in order.
todosReturn(list, t) == forEach(list, t).called

\* Query.todos.
todos ==
    LET walk == forEach(cache, clock) IN
    /\ cache' = walk.list
    /\ touchOrder' = Stored(touchOrder, cache')
    /\ writtenAt' = StoredTimes(writtenAt, cache')
    /\ UNCHANGED <<clock, generated, inflight, resp>>

\* The test of todosByType comparing without regard to case.
Lower(string) == IF string = "Foo" THEN "foo" ELSE string
typeMatches_IgnoreCase(type, entry) == Lower(type) = Lower(entry.type)

\* The test of Query.todosByType: type === entry.type.
typeMatches(type, entry) == type = entry.type

\* What Query.todosByType returns: the entries forEach yields whose type
\* passes the test, pushed in order.
todosByTypeReturn(list, t, type) ==
    SelectSeq(forEach(list, t).called, LAMBDA entry : typeMatches(type, entry))

\* Query.todosByType.
todosByType(type) ==
    LET walk == forEach(cache, clock) IN
    /\ cache' = walk.list
    /\ touchOrder' = Stored(touchOrder, cache')
    /\ writtenAt' = StoredTimes(writtenAt, cache')
    /\ UNCHANGED <<clock, generated, inflight, resp>>

\* What Query.todo returns: cache.get(id).
todoReturn(list, t, id) == LRUget(list, id, t).value

\* Query.todo.
todo(id) ==
    LET got == LRUget(cache, id, clock) IN
    /\ cache' = got.list
    /\ touchOrder' = Stored(IF todoReturn(cache, clock, id) # Undefined
                            THEN Touch(touchOrder, id) ELSE touchOrder, cache')
    /\ writtenAt' = StoredTimes(writtenAt, cache')
    /\ UNCHANGED <<clock, generated, inflight, resp>>

\* sleep(time): setTimeout(resolve, time).  Timers of one duration fire in
\* the order they were armed, none before its time.
sleep(call) == Append(inflight, [call EXCEPT !.due = clock + SleepTime])

\* Mutation.addTodo, up to the await.
addTodoCall(type, description) ==
    /\ inflight' = sleep([op |-> "addTodo", id |-> EmptyString, type |-> type,
                          description |-> description, due |-> 0])
    /\ UNCHANGED <<cache, clock, generated, resp, touchOrder, writtenAt>>

\* Mutation.updateTodo, up to the await.
updateTodoCall(id, type, description) ==
    /\ inflight' = sleep([op |-> "updateTodo", id |-> id, type |-> type,
                          description |-> description, due |-> 0])
    /\ UNCHANGED <<cache, clock, generated, resp, touchOrder, writtenAt>>

\* The timer armed last firing first.
nextTimer_Last(queue) == Len(queue)

\* The timer that fires next: the one armed first.
nextTimer(queue) == 1

\* The mutation body with the "fail" test after the cache.set.
afterSleep_SetBeforeTest(call, id) ==
    LET record == [id |-> id, type |-> call.type,
                   description |-> call.description] IN
    IF call.type = "fail"
    THEN [list |-> LRUset(cache, id, record, clock), value |-> FailError,
          wrote |-> FALSE]
    ELSE [list |-> LRUset(cache, id, record, clock), value |-> record,
          wrote |-> TRUE]

\* What both mutations do after the await: throw on "fail", else build the
\* record, cache.set it under its id and return it.
afterSleep(call, id) ==
    IF call.type = "fail"
    THEN [list |-> cache, value |-> FailError, wrote |-> FALSE]
    ELSE LET record == [id |-> id, type |-> call.type,
                        description |-> call.description] IN
         [list |-> LRUset(cache, id, record, clock), value |-> record,
          wrote |-> TRUE]

\* Both mutations writing under a generated id.
writeId_AlwaysGenerate(call) == generate(generated + 1)

\* The id the resumed mutation writes: addTodo generates it (after the
\* "fail" test), updateTodo takes the caller's.
writeId(call) ==
    IF call.op = "addTodo" THEN generate(generated + 1) ELSE call.id

\* The resumption of a mutation whose timer has fired.
resume(n) ==
    LET call == inflight[n]
        id == writeId(call)
        out == afterSleep(call, id) IN
    /\ clock >= call.due
    /\ call.op = "addTodo" /\ out.wrote => generated < MaxGen
    /\ inflight' = SubSeq(inflight, 1, n - 1) \o SubSeq(inflight, n + 1, Len(inflight))
    /\ cache' = out.list
    /\ generated' = IF call.op = "addTodo" /\ out.wrote
                    THEN generated + 1 ELSE generated
    /\ resp' = [op |-> call.op, at |-> clock, value |-> out.value,
                had |-> IF out.wrote THEN Had(cache, id, clock) ELSE "none"]
    /\ touchOrder' = Stored(IF out.wrote THEN Touch(touchOrder, id)
                            ELSE touchOrder, cache')
    /\ writtenAt' = StoredTimes(IF out.wrote
                                THEN [k \in DOMAIN writtenAt \cup {id} |->
                                        IF k = id THEN clock ELSE writtenAt[k]]
                                ELSE writtenAt, cache')
    /\ UNCHANGED clock

addTodoResume ==
    /\ inflight # << >>
    /\ inflight[nextTimer(inflight)].op = "addTodo"
    /\ resume(nextTimer(inflight))

updateTodoResume ==
    /\ inflight # << >>
    /\ inflight[nextTimer(inflight)].op = "updateTodo"
    /\ resume(nextTimer(inflight))

\* Clients that send one mutation at a time.
Next ==
    \/ Tick
    \/ todos
    \/ \E type \in QueryTypes : todosByType(type)
    \/ \E id \in QueryIds : todo(id)
    \/ /\ inflight = << >>
       /\ \E type \in Types, description \in Descriptions :
              addTodoCall(type, description)
    \/ /\ inflight = << >>
       /\ \E id \in UpdateIds, type \in Types, description \in Descriptions :
              updateTodoCall(id, type, description)
    \/ addTodoResume
    \/ updateTodoResume

Spec == Init /\ [][Next]_vars

\* Clients whose mutations overlap: up to MaxOverlap calls are suspended at
\* once, all non-failing, the updates all to one id.
OverlapId == <<1>>
OverlapType == "foo"

NextOverlap ==
    \/ Tick
    \/ todo(OverlapId)
    \/ /\ Len(inflight) < MaxOverlap
       /\ \E description \in Descriptions :
              addTodoCall(OverlapType, description)
    \/ /\ Len(inflight) < MaxOverlap
       /\ \E description \in Descriptions :
              updateTodoCall(OverlapId, OverlapType, description)
    \/ addTodoResume
    \/ updateTodoResume

SpecOverlap == Init /\ [][NextOverlap]_vars

\* ------------------------------------------------------------- claims
\* A mutation resumed in this step; the call it resumed and what it wrote.
Resumed == Len(inflight') < Len(inflight)
ResumedCall == inflight[1]
Wrote == Resumed /\ ResumedCall.type # "fail"
WrittenId == IF ResumedCall.op = "addTodo" THEN <<generated + 1>> ELSE ResumedCall.id
WrittenRecord == [id |-> WrittenId, type |-> ResumedCall.type,
                  description |-> ResumedCall.description]

\* The elements of a sequence.
Range(seq) == {seq[i] : i \in 1..Len(seq)}

\* The entry stored under key (there is one).
EntryOf(list, key) == list[CHOOSE i \in 1..Len(list) : list[i].key = key]

\* C1: a write of a key the store does not have, into a store that holds
\* max entries, evicts exactly one entry, the one least recently touched by
\* a get that found it or by a write; that entry is absent from the list
\* that follows and every other entry is still there, unchanged.
C1_EvictsLeastRecentlyTouched ==
    [][(Wrote /\ WrittenId \notin Keys(cache) /\ Len(cache) = max) =>
        LET victim == touchOrder[1] IN
        /\ victim \in Keys(cache)
        /\ Keys(cache') = (Keys(cache) \ {victim}) \cup {WrittenId}
        /\ Len(cache') = max
        /\ \A k \in Keys(cache) \ {victim} : EntryOf(cache', k) = EntryOf(cache, k)
        /\ Range(todosReturn(cache', clock')) =
               (Range(todosReturn(cache, clock)) \ {EntryOf(cache, victim).value})
                   \cup {WrittenRecord}
      ]_vars

\* C1 witness: a, b, get a, c at capacity 2: <<1>> written at 1, <<2>> at 2,
\* <<1>> read, the empty id written at 3; <<2>> is gone and <<1>> is kept.
C1_Witness ==
    /\ clock = 3
    /\ generated = 2
    /\ resp.op = "updateTodo" /\ resp.had = "none" /\ resp.at = 3
    /\ Len(cache) = 2
    /\ cache[1].key = EmptyString /\ cache[1].now = 3
    /\ cache[2].key = <<1>> /\ cache[2].now = 1

\* C2: the list todos returns never has more than max records.
C2_ListAtMostMax ==
    /\ Len(todosReturn(cache, clock)) <= max
    /\ Len(cache) <= max

\* C2 witness: three keys were written, none old enough to have expired,
\* and the list has max records.
C2_Witness ==
    /\ clock <= 3
    /\ generated = 2
    /\ EmptyString \in Keys(cache)
    /\ Len(todosReturn(cache, clock)) = max

\* C3: a mutation called with type "fail" ends in the error and changes
\* nothing in the store: entries, values, order and times are as before.
C3_FailLeavesStore ==
    [][(Resumed /\ ResumedCall.type = "fail") =>
        /\ resp'.value = FailError
        /\ cache' = cache
        /\ generated' = generated
        /\ todosReturn(cache', clock') = todosReturn(cache, clock)
      ]_vars

\* C3 witness: an updateTodo with type "fail" has thrown over a full store.
C3_Witness ==
    /\ resp.op = "updateTodo"
    /\ resp.value = FailError
    /\ resp.at = clock
    /\ Len(cache) = max

\* The ids of the records in a list.
IdsOf(records) == {records[i].id : i \in 1..Len(records)}

\* C4 as claimed: once maxAge has elapsed since the last write of an entry,
\* todo returns undefined for it and no list has it.
C4_AbsentOnceAgeReached ==
    \A k \in DOMAIN writtenAt :
        clock - writtenAt[k] >= maxAge =>
            /\ todoReturn(cache, clock, k) = Undefined
            /\ k \notin IdsOf(todosReturn(cache, clock))

\* C4 amended: once more than maxAge has elapsed since the last write of an
\* entry, todo returns undefined for it and no list has it; the time an
\* entry's age is counted from is the time of its last write, whatever
\* reads came in between.
C4_AbsentOnceAgeExceeded ==
    /\ \A k \in DOMAIN writtenAt :
           clock - writtenAt[k] > maxAge =>
               /\ todoReturn(cache, clock, k) = Undefined
               /\ k \notin IdsOf(todosReturn(cache, clock))
               /\ \A type \in QueryTypes :
                      k \notin IdsOf(todosByTypeReturn(cache, clock, type))
    /\ \A i \in 1..Len(cache) :
           /\ cache[i].key \in DOMAIN writtenAt
           /\ cache[i].now = writtenAt[cache[i].key]

\* C4 witness: an entry past its age that a read moved to the head of the
\* list after a later write of another entry.
C4_Witness ==
    /\ Len(cache) = 2
    /\ clock - writtenAt[cache[1].key] > maxAge
    /\ writtenAt[cache[2].key] > writtenAt[cache[1].key]
    /\ todoReturn(cache, clock, cache[1].key) = Undefined

\* C5: a non-failing write to an id that has a live entry replaces the
\* type and description stored there and keeps the id; there is still one
\* entry for the id, the same keys are stored, as many are live, and every
\* other entry is as it was, also when the store is full.
C5_UpdateInPlace ==
    [][(Wrote /\ Had(cache, WrittenId, clock) = "live") =>
        /\ Keys(cache') = Keys(cache)
        /\ Len(cache') = Len(cache)
        /\ Cardinality({i \in 1..Len(cache') : cache'[i].key = WrittenId}) = 1
        /\ EntryOf(cache', WrittenId).value = WrittenRecord
        /\ \A k \in Keys(cache) \ {WrittenId} :
               EntryOf(cache', k) = EntryOf(cache, k)
        /\ Len(todosReturn(cache', clock')) = Len(todosReturn(cache, clock))
      ]_vars

\* C5 witness: an updateTodo has just replaced a live entry of a full store.
C5_Witness ==
    /\ resp.op = "updateTodo"
    /\ resp.had = "live"
    /\ resp.at = clock
    /\ Len(cache) = max
    /\ cache[1].value = resp.value
    /\ Len(todosReturn(cache, clock)) = max

\* C6: a non-failing updateTodo of an id that has no live entry does not
\* fail: it returns {id, type, description} with the caller's id, and a
\* todo(id) that follows returns that record.
C6_UpdateCreates ==
    [][(Wrote /\ ResumedCall.op = "updateTodo"
              /\ Had(cache, ResumedCall.id, clock) # "live") =>
        /\ resp'.value = [id |-> ResumedCall.id, type |-> ResumedCall.type,
                          description |-> ResumedCall.description]
        /\ ResumedCall.id \in Keys(cache')
        /\ todoReturn(cache', clock', ResumedCall.id) = resp'.value
      ]_vars

\* C6 witness: the first write ever is an updateTodo, of an id that was
\* never created.
C6_Witness ==
    /\ resp.op = "updateTodo"
    /\ resp.had = "none"
    /\ generated = 0
    /\ Len(cache) = 1
    /\ cache[1].now = resp.at
    /\ todoReturn(cache, clock, resp.value.id) = resp.value

\* C7: addTodo with a type other than "fail" returns a record with the
\* call's type and description and a non-empty generated id; until another
\* mutation resumes and before maxAge has elapsed, todo of that id returns
\* the same record, whatever was read in between.
C7_CreateThenGet ==
    /\ [][(Wrote /\ ResumedCall.op = "addTodo") =>
            /\ resp'.value.id # EmptyString
            /\ resp'.value.type = ResumedCall.type
            /\ resp'.value.description = ResumedCall.description
         ]_vars
    /\ []((resp.op = "addTodo" /\ resp.value # FailError) =>
            /\ resp.value.id # EmptyString
            /\ clock - resp.at < maxAge =>
                   todoReturn(cache, clock, resp.value.id) = resp.value)

\* C7 witness: the record an addTodo returned is still what todo returns a
\* tick later, after a read moved another entry ahead of it.
C7_Witness ==
    /\ resp.op = "addTodo"
    /\ resp.value # FailError
    /\ clock - resp.at = 1
    /\ Len(cache) = 2
    /\ cache[2].key = resp.value.id
    /\ todoReturn(cache, clock, resp.value.id) = resp.value

\* C8: for every string, todosByType returns exactly the records todos
\* returns at that moment whose type is that string, case and all, each
\* once; none of them is expired.
C8_ListByTypeIsFilter ==
    \A type \in QueryTypes :
        LET got == todosByTypeReturn(cache, clock, type)
            all == todosReturn(cache, clock) IN
        /\ Range(got) = {r \in Range(all) : r.type = type}
        /\ Len(got) = Cardinality(Range(got))
        /\ \A r \in Range(got) :
               \E i \in 1..Len(cache) :
                   cache[i].value = r /\ clock - cache[i].now <= maxAge

\* C8 witness: of two stored "foo" records one is expired; todosByType
\* returns the other for "foo" and nothing for "Foo" or "bar".
C8_Witness ==
    /\ Len(cache) = 2
    /\ cache[1].value.type = "foo" /\ cache[2].value.type = "foo"
    /\ clock - cache[1].now <= maxAge
    /\ clock - cache[2].now > maxAge
    /\ todosByTypeReturn(cache, clock, "foo") = <<cache[1].value>>
    /\ todosByTypeReturn(cache, clock, "Foo") = << >>
    /\ todosByTypeReturn(cache, clock, "bar") = << >>

\* C9: every record is stored under the key equal to its id, no two
\* entries have one key, and no two records todos returns have one id.
C9_KeyIsId ==
    /\ \A i \in 1..Len(cache) : cache[i].key = cache[i].value.id
    /\ \A i, j \in 1..Len(cache) : i # j => cache[i].key # cache[j].key
    /\ Cardinality(IdsOf(todosReturn(cache, clock))) = Len(todosReturn(cache, clock))

\* C9 witness: a created record and a record an updateTodo put under an id
\* that was never created, then updated again, side by side.
C9_Witness ==
    /\ Len(todosReturn(cache, clock)) = 2
    /\ generated = 1
    /\ Keys(cache) = {<<1>>, EmptyString}
    /\ resp.op = "updateTodo" /\ resp.had = "live"
    /\ resp.value.id = EmptyString

\* C10: of the mutations suspended together, a call changes nothing until
\* its own delay is over; the call armed first resumes first; each resumed
\* call does its own write, returns its own record, and leaves that record
\* stored under its id whatever an earlier call wrote there.
C10_OverlappingWrites ==
    [][/\ Len(inflight') > Len(inflight) => (cache' = cache /\ resp' = resp)
       /\ Resumed =>
            /\ inflight' = Tail(inflight)
            /\ \A i \in 1..Len(inflight) : ResumedCall.due <= inflight[i].due
            /\ clock >= ResumedCall.due
            /\ resp'.value = WrittenRecord
            /\ cache'[1] = Entry(WrittenId, WrittenRecord, clock)
            /\ todoReturn(cache', clock', WrittenId) = WrittenRecord
      ]_vars

\* C10 witness: two updateTodo calls of one id were suspended together
\* (both called at 0, nothing written before 1); both have resumed, the
\* second over the live entry of the first, and its record is the one stored.
C10_Witness ==
    /\ clock = 1
    /\ generated = 0
    /\ inflight = << >>
    /\ resp.op = "updateTodo" /\ resp.had = "live" /\ resp.at = 1
    /\ Len(cache) = 1
    /\ cache[1].value = resp.value

\* What a list call (todos or todosByType) leaves in the store.
AfterList(list, t) == forEach(list, t).list

\* The record a write of a new key stores.
NewRecord(key) == [id |-> key, type |-> "foo", description |-> "d1"]

\* C11: a list call put before a write of a new key into a full store, time
\* standing still, changes nothing of what that write leaves: the same
\* entry is evicted, so the same records are listed after the write, with
\* the values and the times they had.
C11_ListKeepsEviction ==
    \A key \in QueryIds \ Keys(cache) :
        Len(cache) = max =>
            LET without == LRUset(cache, key, NewRecord(key), clock)
                with == LRUset(AfterList(cache, clock), key, NewRecord(key), clock) IN
            /\ todosReturn(with, clock) = todosReturn(without, clock)
            /\ \A i \in 1..Len(without) :
                   clock - without[i].now <= maxAge =>
                       \E j \in 1..Len(with) : with[j] = without[i]

\* The part of C11 that holds of every reachable store: a list call leaves
\* the entries that are not expired, in the order they had, each with its
\* value and its time, and a second list call changes nothing more; where
\* no stored entry is expired the store is as it was, and so is the
\* eviction of a later write.
C11_ListKeepsOrderOfLive ==
    /\ AfterList(cache, clock) =
           SelectSeq(cache, LAMBDA e : clock - e.now <= maxAge)
    /\ AfterList(AfterList(cache, clock), clock) = AfterList(cache, clock)
    /\ (\A i \in 1..Len(cache) : clock - cache[i].now <= maxAge) =>
           AfterList(cache, clock) = cache

====
